---- MODULE Spec2Model ----
(***************************************************************************)
(* A model of the toolkit package (src/v2/tools.go): the multipart upload  *)
(* ingestor (UploadFiles, UploadOneFile, CreateDirIfNotExist,              *)
(* RandomString), the strict JSON decoder (ReadJSON), Slugify, the JSON    *)
(* writers (WriteJSON, ErrorJSON) and the JSON client (PushJSONToRemote).  *)
(*                                                                         *)
(* Strings are TLA+ strings, read character by character with SubSeq.      *)
(* File contents are sequences of byte values 0..255.                      *)
(***************************************************************************)
EXTENDS Integers, Sequences, FiniteSets, TLC

VARIABLES
    t,          \* the Tools value: its four fields
    fsDir,      \* state of the upload directory path on the filesystem
    fsFiles,    \* files of the upload directory: name -> content
    pc,         \* position of the current invocation
    call,       \* locals of the current invocation
    ret,        \* what the invocation returned
    obs,        \* observations of the invocation's I/O (history only)
    js,         \* an invocation of ReadJSON: its arguments and its result
    fn,         \* an invocation of RandomString or Slugify, and its result
    w,          \* the http.ResponseWriter, and the invocation writing to it
    mk          \* the callers of CreateDirIfNotExist on one path

vars == <<t, fsDir, fsFiles, pc, call, ret, obs, js, fn, w, mk>>

-----------------------------------------------------------------------------
(* Bounds of the model *)

\* largest number of file parts in one multipart body
MaxParts == 2

-----------------------------------------------------------------------------
(* Strings *)

Char(s, i) == SubSeq(s, i, i)

UpperLetters == "ABCDEFGHIJKLMNOPQRSTUVWXYZ"
LowerLetters == "abcdefghijklmnopqrstuvwxyz"

\* unicode.ToLower / simple case folding, on ASCII
ToLowerChar(c) ==
    IF \E i \in 1..26 : Char(UpperLetters, i) = c
    THEN Char(LowerLetters, CHOOSE i \in 1..26 : Char(UpperLetters, i) = c)
    ELSE c

\* strings.EqualFold
EqualFold(a, b) ==
    /\ Len(a) = Len(b)
    /\ \A i \in 1..Len(a) : ToLowerChar(Char(a, i)) = ToLowerChar(Char(b, i))

\* strings.HasPrefix
HasPrefix(s, prefix) ==
    /\ Len(s) >= Len(prefix)
    /\ SubSeq(s, 1, Len(prefix)) = prefix

\* strings.TrimPrefix
TrimPrefix(s, prefix) ==
    IF HasPrefix(s, prefix) THEN SubSeq(s, Len(prefix) + 1, Len(s)) ELSE s

\* filepath.Ext: the suffix starting at the last dot of the last path element
RECURSIVE ExtFrom(_, _)
ExtFrom(path, i) ==
    IF i < 1 \/ Char(path, i) = "/" THEN ""
    ELSE IF Char(path, i) = "." THEN SubSeq(path, i, Len(path))
    ELSE ExtFrom(path, i - 1)

Ext(path) == ExtFrom(path, Len(path))

-----------------------------------------------------------------------------
(* RandomString *)

randomStringSource == "abcdefghijklmnopqrstuvwxyzABCDEFGHIJKLMNOPQRSTUVWXYZ0123456789_+"

\* rand.Prime(rand.Reader, 64) returns a prime of exactly 64 bits.  Only
\* p mod 64 is used, so a prime is represented by its residue mod 64: a
\* prime of 64 bits is odd, and every odd residue is the residue of one.
PrimeResidues == { x \in 0..63 : x % 2 = 1 }

RandomStringError == "RandomString Error"

\* the random source as one invocation sees it: the primes it hands out,
\* or a failure (fail = TRUE: rand.Prime returns an error)
RECURSIVE RandomChars(_, _, _)
RandomChars(n, primes, i) ==
    IF i > n THEN ""
    ELSE Char(randomStringSource, (primes[i] % Len(randomStringSource)) + 1)
             \o RandomChars(n, primes, i + 1)

RandomString(n, rnd) ==
    IF n > 0 /\ rnd.fail THEN RandomStringError
    ELSE RandomChars(n, rnd.primes, 1)

-----------------------------------------------------------------------------
(* http.DetectContentType, restricted to the signatures below *)

sniffLen == 512

PNGSig   == <<137, 80, 78, 71, 13, 10, 26, 10>>
JPEGSig  == <<255, 216, 255>>
GIF87Sig == <<71, 73, 70, 56, 55, 97>>
GIF89Sig == <<71, 73, 70, 56, 57, 97>>
PDFSig   == <<37, 80, 68, 70, 45>>

BytesHasPrefix(data, sig) ==
    /\ Len(data) >= Len(sig)
    /\ SubSeq(data, 1, Len(sig)) = sig

isWS(b) == b \in {9, 10, 12, 13, 32}

\* bytes that never occur in text
isBinary(b) == b <= 8 \/ b = 11 \/ (14 <= b /\ b <= 26) \/ (28 <= b /\ b <= 31)

DetectContentType(data) ==
    LET d == IF Len(data) > sniffLen THEN SubSeq(data, 1, sniffLen) ELSE data
        firstNonWS ==
            IF \A i \in 1..Len(d) : isWS(d[i]) THEN Len(d) + 1
            ELSE CHOOSE i \in 1..Len(d) :
                    /\ ~isWS(d[i])
                    /\ \A j \in 1..(i - 1) : isWS(d[j])
    IN  IF BytesHasPrefix(d, PDFSig) THEN "application/pdf"
        ELSE IF BytesHasPrefix(d, GIF87Sig) \/ BytesHasPrefix(d, GIF89Sig)
            THEN "image/gif"
        ELSE IF BytesHasPrefix(d, PNGSig) THEN "image/png"
        ELSE IF BytesHasPrefix(d, JPEGSig) THEN "image/jpeg"
        ELSE IF \A i \in firstNonWS..Len(d) : ~isBinary(d[i])
            THEN "text/plain; charset=utf-8"
        ELSE "application/octet-stream"

-----------------------------------------------------------------------------
(* Inputs *)

nil == "nil"

\* a PNG image longer than the sniffed prefix, a two-byte text, no bytes
PNGData   == PNGSig \o [i \in 1..sniffLen |-> 65]
TextData  == <<104, 105>>
EmptyData == << >>

\* the bytes of a part, by the name the model gives them
Bytes(data) ==
    CASE data = "png"   -> PNGData
      [] data = "text"  -> TextData
      [] data = "empty" -> EmptyData

\* the file parts a body is made of: form field, file name, bytes
PartPool ==
    { [field |-> "a", Filename |-> "img.png",  data |-> "png"],
      [field |-> "b", Filename |-> "notes",    data |-> "text"],
      [field |-> "b", Filename |-> "img.png",  data |-> "text"],
      [field |-> "b", Filename |-> "x.tar.gz", data |-> "empty"] }

PartSeqs == UNION { [1..n -> PartPool] : n \in 0..MaxParts }

\* sizes of the non-file form values of a body that has large ones: over
\* a small cap plus 10 MB, and over the default cap plus 10 MB
BigValueBytes  == 20 * 1024 * 1024
HugeValueBytes == 2000 * 1024 * 1024

\* a body: whether it is well-formed multipart, the bytes of its non-file
\* values, its file parts in body order
Requests ==
    [wellFormed : {TRUE}, valueBytes : {0}, parts : PartSeqs]
    \cup [wellFormed : {FALSE}, valueBytes : {0},
          parts : { <<p>> : p \in { q \in PartPool : q.data = "png" } }]
    \cup [wellFormed : {TRUE}, valueBytes : {BigValueBytes, HugeValueBytes},
          parts : { <<p>> : p \in { q \in PartPool : q.data = "png" } }]

AllowLists ==
    { << >>,
      <<"image/jpeg", "image/png">>,
      <<"image/jpeg">>,
      <<"IMAGE/PNG", "text/plain; charset=utf-8">> }

\* what the random source hands out during one invocation
RandomSources ==
    { [fail |-> FALSE, primes |-> [i \in 1..25 |-> 1]],
      [fail |-> FALSE, primes |-> [i \in 1..25 |-> IF i % 2 = 0 THEN 63 ELSE 27]],
      [fail |-> TRUE,  primes |-> [i \in 1..25 |-> 1]] }


-----------------------------------------------------------------------------
(* The filesystem *)

\* os.Stat(path) followed by os.IsNotExist(err)
StatIsNotExist(dir) == dir = "absent"

\* os.Create(filepath.Join(uploadDir, name)) then writing `content`
WriteFile(files, name, content) ==
    [n \in DOMAIN files \cup {name} |->
        IF n = name THEN content ELSE files[n]]

-----------------------------------------------------------------------------
(* CreateDirIfNotExist: the outcomes of one call on a path in state `dir`. *)
(* "denied": os.Stat fails with an error other than not-exist.             *)

DirStates == {"absent", "present", "denied"}

CreateDirIfNotExist(dir) ==
    IF StatIsNotExist(dir)
    THEN { [dir |-> "present", err |-> nil],
           [dir |-> "absent",  err |-> "mkdir failed"] }
    ELSE { [dir |-> dir, err |-> nil] }

-----------------------------------------------------------------------------
(* r.ParseMultipartForm(maxMemory): file parts larger than maxMemory go to *)
(* temporary files; only the non-file values are bounded, by maxMemory     *)
(* plus 10 MB.                                                             *)

DefaultMaxFileSize == 1024 * 1024 * 1024

ParseMultipartForm(req, maxMemory) ==
    IF ~req.wellFormed THEN "multipart: malformed body"
    ELSE IF req.valueBytes > maxMemory + 10 * 1024 * 1024
        THEN "multipart: message too large"
    ELSE nil

\* what UploadFiles returns when the parse failed with perr
ParseError(perr) == "the uploaded file is too big"

\* range over the map r.MultipartForm.File: the field names in any order,
\* the parts of one field in body order
Perms(S) ==
    { p \in [1..Cardinality(S) -> S] :
        \A i, j \in 1..Cardinality(S) : p[i] = p[j] => i = j }

FieldsOf(parts) == { parts[i].field : i \in 1..Len(parts) }

FileHeaders(parts, f) == SelectSeq(parts, LAMBDA p : p.field = f)

RECURSIVE RangeOrder(_, _, _)
RangeOrder(parts, perm, i) ==
    IF i > Len(perm) THEN << >>
    ELSE FileHeaders(parts, perm[i]) \o RangeOrder(parts, perm, i + 1)

IterationOrders(parts) ==
    { RangeOrder(parts, perm, 1) : perm \in Perms(FieldsOf(parts)) }

-----------------------------------------------------------------------------
(* The body of the loop of UploadFiles: the closure applied to one part.   *)

Min(a, b) == IF a < b THEN a ELSE b

\* inFile.Read(buff) at offset pos of a stream over `content`
Read(content, pos, buffLen) ==
    LET n == Min(buffLen, Len(content) - pos)
    IN  [n |-> n, err |-> IF n = 0 THEN "EOF" ELSE nil]

\* buff := make([]byte, 512), then the bytes read laid over it
Buff(content, pos, n) ==
    [i \in 1..sniffLen |-> IF i <= n THEN content[pos + i] ELSE 0]

\* (variant: the comparison is case-sensitive)
AllowedExactCase(fileType, AllowedFileTypes) ==
    IF Len(AllowedFileTypes) > 0
    THEN \E i \in 1..Len(AllowedFileTypes) : fileType = AllowedFileTypes[i]
    ELSE TRUE

\* the allow-list decision
Allowed(fileType, AllowedFileTypes) ==
    IF Len(AllowedFileTypes) > 0
    THEN \E i \in 1..Len(AllowedFileTypes) :
            EqualFold(fileType, AllowedFileTypes[i])
    ELSE TRUE

\* the name the part is stored under
NewFileName(renameFile, Filename, rnd) ==
    IF renameFile THEN RandomString(25, rnd) \o Ext(Filename) ELSE Filename

\* (variant: the stream is left where the sniff read ended)
SeekNowhere(pos) == pos

\* inFile.Seek(0, 0)
SeekStart(pos) == 0

\* io.Copy(outFile, inFile): the bytes from the stream's offset to its end
CopyFrom(content, pos) == SubSeq(content, pos + 1, Len(content))

\* (variant: the record is put in front of the list)
PrependFile(uploadedFiles, uploadedFile) == <<uploadedFile>> \o uploadedFiles

\* uploadedFiles = append(uploadedFiles, &uploadedFile)
AppendFile(uploadedFiles, uploadedFile) == Append(uploadedFiles, uploadedFile)

Failed(files, err) ==
    [uploadedFiles |-> << >>, err |-> err, files |-> files,
     opened |-> TRUE, stored |-> << >>, open |-> << >>]

\* var outFile *os.File; defer outFile.Close(): the receiver of a deferred
\* call is evaluated when the defer statement is executed, and there the
\* variable has not been assigned yet
OutFileAtDefer(outFile) == nil

\* the deferred calls, run when the closure returns: inFile.Close() and
\* outFile.Close() on the receiver it was deferred with (Close of a nil
\* *os.File returns an error and closes nothing).  handles: the handles the
\* closure opened; the result: those still open, in that order
RunDeferred(handles, outFile) ==
    LET closed == {"inFile", OutFileAtDefer(outFile)}
    IN  SelectSeq(handles, LAMBDA h : h \notin closed)

\* how many bytes a failing io.Copy may have written before it failed
Cuts(data) == { n \in {0, 1} : n <= Len(data) }

\* The closure on the part fh: every outcome it can have.  Each I/O call
\* (Open, Read, Seek, os.Create, io.Copy) either fails or succeeds; rnds
\* are the random sources RandomString may meet.
Closure(uploadedFiles, fh, renameFile, AllowedFileTypes, dir, files, rnds) ==
    LET content  == Bytes(fh.data)
        rd       == Read(content, 0, sniffLen)
        fileType == DetectContentType(Buff(content, 0, rd.n))
        pos      == SeekStart(rd.n)
        data     == CopyFrom(content, pos)
        Stored(name) ==
            [uploadedFiles |->
                 AppendFile(uploadedFiles,
                            [NewFileName |-> name,
                             OriginalFileName |-> fh.Filename,
                             FileSize |-> Len(data)]),
             err |-> nil,
             files |-> WriteFile(files, name, data),
             opened |-> TRUE,
             stored |-> <<[name |-> name, data |-> fh.data]>>,
             open |-> RunDeferred(<<"inFile", name>>, name)]
        Written(name) ==
            { [Failed(WriteFile(files, name, SubSeq(data, 1, n)),
                      "copy failed")
                 EXCEPT !.open = RunDeferred(<<"inFile", name>>, name)] :
                n \in Cuts(data) }
            \cup { Stored(name) }
        Created ==
            { Failed(files, "create failed") }
            \cup IF dir = "present"
                 THEN UNION { Written(NewFileName(renameFile, fh.Filename, rnd)) :
                                rnd \in rnds }
                 ELSE {}
        Sniffed ==
            IF rd.err # nil THEN { Failed(files, rd.err) }
            ELSE IF ~Allowed(fileType, AllowedFileTypes)
            THEN { Failed(files, "the uploaded file type is not permitted") }
            ELSE { Failed(files, "seek failed") } \cup Created
    IN  { [Failed(files, "open failed") EXCEPT !.opened = FALSE],
          Failed(files, "read failed") }
        \cup Sniffed

-----------------------------------------------------------------------------
(* encoding/json, as far as ReadJSON depends on it.  A text is scanned     *)
(* character by character.  Strings have no escapes and numbers are         *)
(* integers.                                                                *)

isSpace(c) == c \in {" ", "\t", "\n", "\r"}

Digits == "0123456789"

isDigit(c) == \E j \in 1..Len(Digits) : Char(Digits, j) = c

RECURSIVE SkipSpace(_, _)
SkipSpace(s, i) ==
    IF i <= Len(s) /\ isSpace(Char(s, i)) THEN SkipSpace(s, i + 1) ELSE i

RECURSIVE SkipDigits(_, _)
SkipDigits(s, i) ==
    IF i <= Len(s) /\ isDigit(Char(s, i)) THEN SkipDigits(s, i + 1) ELSE i

\* the next double quote at or after i, Len(s) + 1 when there is none
RECURSIVE FindQuote(_, _)
FindQuote(s, i) ==
    IF i <= Len(s) /\ Char(s, i) # "\"" THEN FindQuote(s, i + 1) ELSE i

\* results of scanning a value: a value that ends before pos, an invalid
\* character at pos, or the end of the text inside the value
ScanOK(first, pos, val) ==
    [st |-> "ok", pos |-> pos, val |-> val @@ [first |-> first, last |-> pos - 1]]
ScanBad(pos) == [st |-> "bad", pos |-> pos]
ScanMore == [st |-> "more"]

Scalars == {"string", "number", "bool", "null"}

\* i: the index after the opening quote
ScanString(s, i) ==
    LET j == FindQuote(s, i)
    IN  IF j > Len(s) THEN ScanMore
        ELSE ScanOK(i - 1, j + 1,
                    [type |-> "string", str |-> SubSeq(s, i, j - 1)])

\* i: the index of a digit or of a minus sign
ScanNumber(s, i) ==
    LET d == IF Char(s, i) = "-" THEN i + 1 ELSE i
    IN  IF d > Len(s) THEN ScanMore
        ELSE IF ~isDigit(Char(s, d)) THEN ScanBad(d)
        ELSE IF Char(s, d) = "0" THEN ScanOK(i, d + 1, [type |-> "number"])
        ELSE ScanOK(i, SkipDigits(s, d), [type |-> "number"])

\* word: true, false or null, matched from its k-th character at i
RECURSIVE ScanLiteral(_, _, _, _)
ScanLiteral(s, i, word, k) ==
    IF k > Len(word)
    THEN ScanOK(i - Len(word), i,
                [type |-> IF word = "null" THEN "null" ELSE "bool"])
    ELSE IF i > Len(s) THEN ScanMore
    ELSE IF Char(s, i) # Char(word, k) THEN ScanBad(i)
    ELSE ScanLiteral(s, i + 1, word, k + 1)

RECURSIVE ScanValue(_, _)
RECURSIVE ScanObject(_, _, _, _)
RECURSIVE ScanArray(_, _, _, _)

ScanValue(s, i) ==
    LET j == SkipSpace(s, i)
    IN  IF j > Len(s) THEN ScanMore
        ELSE LET c == Char(s, j)
             IN  IF c = "{" THEN ScanObject(s, j, j + 1, << >>)
                 ELSE IF c = "[" THEN ScanArray(s, j, j + 1, << >>)
                 ELSE IF c = "\"" THEN ScanString(s, j + 1)
                 ELSE IF c = "-" \/ isDigit(c) THEN ScanNumber(s, j)
                 ELSE IF c = "t" THEN ScanLiteral(s, j, "true", 1)
                 ELSE IF c = "f" THEN ScanLiteral(s, j, "false", 1)
                 ELSE IF c = "n" THEN ScanLiteral(s, j, "null", 1)
                 ELSE ScanBad(j)

\* first: the index of the opening brace; i: where the next key is looked
\* for; members: the key/value pairs so far
ScanObject(s, first, i, members) ==
    LET j == SkipSpace(s, i)
    IN  IF j > Len(s) THEN ScanMore
        ELSE IF members = << >> /\ Char(s, j) = "}"
        THEN ScanOK(first, j + 1, [type |-> "object", members |-> members])
        ELSE IF Char(s, j) # "\"" THEN ScanBad(j)
        ELSE
        LET key == ScanString(s, j + 1) IN
        IF key.st # "ok" THEN key
        ELSE
        LET k == SkipSpace(s, key.pos) IN
        IF k > Len(s) THEN ScanMore
        ELSE IF Char(s, k) # ":" THEN ScanBad(k)
        ELSE
        LET v == ScanValue(s, k + 1) IN
        IF v.st # "ok" THEN v
        ELSE
        LET m  == SkipSpace(s, v.pos)
            ms == Append(members, [key |-> key.val.str, val |-> v.val])
        IN  IF m > Len(s) THEN ScanMore
            ELSE IF Char(s, m) = "," THEN ScanObject(s, first, m + 1, ms)
            ELSE IF Char(s, m) = "}"
            THEN ScanOK(first, m + 1, [type |-> "object", members |-> ms])
            ELSE ScanBad(m)

ScanArray(s, first, i, items) ==
    LET j == SkipSpace(s, i)
    IN  IF j > Len(s) THEN ScanMore
        ELSE IF items = << >> /\ Char(s, j) = "]"
        THEN ScanOK(first, j + 1, [type |-> "array", items |-> items])
        ELSE
        LET v == ScanValue(s, j) IN
        IF v.st # "ok" THEN v
        ELSE
        LET m  == SkipSpace(s, v.pos)
            is == Append(items, v.val)
        IN  IF m > Len(s) THEN ScanMore
            ELSE IF Char(s, m) = "," THEN ScanArray(s, first, m + 1, is)
            ELSE IF Char(s, m) = "]"
            THEN ScanOK(first, m + 1, [type |-> "array", items |-> is])
            ELSE ScanBad(m)

(* The errors of the decoder and of the body reader: a Go type, and the   *)
(* text of Error().                                                        *)

EOF == [type |-> "io.EOF", text |-> "EOF"]
ErrUnexpectedEOF == [type |-> "io.ErrUnexpectedEOF", text |-> "unexpected EOF"]
BodyTooLarge == [type |-> "errorString", text |-> "http: request body too large"]
ReadFailed == [type |-> "errorString", text |-> "read: connection reset by peer"]

Quote(s) == "\"" \o s \o "\""

SyntaxError(Offset) ==
    [type |-> "SyntaxError", text |-> "invalid character", Offset |-> Offset]
UnmarshalTypeError(Value, Field, Offset) ==
    [type |-> "UnmarshalTypeError",
     text |-> "json: cannot unmarshal " \o Value,
     Field |-> Field, Offset |-> Offset]
InvalidUnmarshalError ==
    [type |-> "InvalidUnmarshalError", text |-> "json: Unmarshal(nil)"]
UnknownFieldError(key) ==
    [type |-> "errorString", text |-> "json: unknown field " \o Quote(key)]

NoError == [type |-> "nil", text |-> ""]

(* Unmarshal of a scanned value into a struct whose fields are all strings *)
(* `dest` maps the JSON names of the fields to their values.               *)

\* the field a key names: the exact name, else a case-insensitive match
FieldsNamed(dest, key) ==
    IF key \in DOMAIN dest THEN {key}
    ELSE { f \in DOMAIN dest : EqualFold(f, key) }

\* d.saveError: the first error is kept
SaveError(saved, err) == IF saved = NoError THEN err ELSE saved

RECURSIVE UnmarshalMembers(_, _, _, _, _)
UnmarshalMembers(members, i, dest, saved, disallowUnknownFields) ==
    IF i > Len(members) THEN [dest |-> dest, err |-> saved]
    ELSE
    LET m  == members[i]
        fs == FieldsNamed(dest, m.key)
    IN  IF fs = {}
        THEN UnmarshalMembers(members, i + 1, dest,
                 IF disallowUnknownFields
                 THEN SaveError(saved, UnknownFieldError(m.key))
                 ELSE saved,
                 disallowUnknownFields)
        ELSE LET f == CHOOSE x \in fs : TRUE
             IN  IF m.val.type = "string"
                 THEN UnmarshalMembers(members, i + 1,
                          [dest EXCEPT ![f] = m.val.str], saved,
                          disallowUnknownFields)
                 ELSE IF m.val.type = "null"
                 THEN UnmarshalMembers(members, i + 1, dest, saved,
                                       disallowUnknownFields)
                 ELSE UnmarshalMembers(members, i + 1, dest,
                          SaveError(saved,
                              UnmarshalTypeError(m.val.type, f, m.val.last)),
                          disallowUnknownFields)

\* (variant: a value that does not unmarshal without error stores nothing)
UnmarshalAllOrNothing(val, dest, disallowUnknownFields) ==
    LET r == IF val.type = "object"
             THEN UnmarshalMembers(val.members, 1, dest, NoError,
                                   disallowUnknownFields)
             ELSE [dest |-> dest, err |-> NoError]
    IN  IF val.type = "null" THEN [dest |-> dest, err |-> NoError]
        ELSE IF val.type = "object"
        THEN [dest |-> IF r.err = NoError THEN r.dest ELSE dest,
              err |-> r.err]
        ELSE [dest |-> dest,
              err |-> UnmarshalTypeError(val.type, "",
                          IF val.type \in Scalars THEN val.last
                          ELSE val.first)]

Unmarshal(val, dest, disallowUnknownFields) ==
    IF val.type = "null" THEN [dest |-> dest, err |-> NoError]
    ELSE IF val.type = "object"
    THEN UnmarshalMembers(val.members, 1, dest, NoError, disallowUnknownFields)
    ELSE [dest |-> dest,
          err |-> UnmarshalTypeError(val.type, "",
                      IF val.type \in Scalars THEN val.last ELSE val.first)]

(* The body as the decoder reads it through http.MaxBytesReader: at most   *)
(* maxBytes bytes, then the reader's last word.  A body is a text followed  *)
(* by `spaces` space characters; `broken` says that the transport fails     *)
(* where the body should end.                                               *)

BodyLen(body) == Len(body.text) + body.spaces

MaxBytesReader(body, maxBytes) ==
    [text   |-> SubSeq(body.text, 1, Min(Len(body.text), maxBytes)),
     spaces |-> IF maxBytes > Len(body.text)
                THEN Min(body.spaces, maxBytes - Len(body.text)) ELSE 0,
     last   |-> IF BodyLen(body) > maxBytes THEN BodyTooLarge
                ELSE IF body.broken THEN ReadFailed
                ELSE EOF]

(* dec.Decode(v): the next value of the stream r, read from offset scanp,  *)
(* into dest; destOK says that v is a non-nil pointer.                     *)

Complete(val, pos, dest, disallowUnknownFields, destOK) ==
    IF ~destOK
    THEN [err |-> InvalidUnmarshalError, dest |-> dest, scanp |-> pos - 1]
    ELSE Unmarshal(val, dest, disallowUnknownFields) @@ [scanp |-> pos - 1]

Decode(r, scanp, dest, disallowUnknownFields, destOK) ==
    LET v    == ScanValue(r.text, scanp + 1)
        rest == SubSeq(r.text, scanp + 1, Len(r.text))
        Stop(err) == [err |-> err, dest |-> dest, scanp |-> scanp]
    IN  IF v.st = "bad" THEN Stop(SyntaxError(v.pos))
        ELSE IF v.st = "more"
        THEN IF r.last = EOF
             THEN IF SkipSpace(rest, 1) <= Len(rest)
                  THEN Stop(ErrUnexpectedEOF)
                  ELSE Stop(EOF)
             ELSE Stop(r.last)
        ELSE IF v.val.type \in Scalars
        THEN \* a scalar ends at the byte after it, whatever that byte is
             \* (the scanner complains of it on the next call), or at the
             \* end of the input
             IF v.pos <= Len(r.text) \/ r.spaces > 0 \/ r.last = EOF
             THEN Complete(v.val, v.pos, dest, disallowUnknownFields,
                           destOK)
             ELSE Stop(r.last)
        ELSE Complete(v.val, v.pos, dest, disallowUnknownFields, destOK)

-----------------------------------------------------------------------------
(* ReadJSON *)

DefaultMaxJSONSize == 1024 * 1024

\* (variant: the error of the first Decode is handed on as it is)
MapDecodeErrorRaw(err, maxBytes) == [case |-> "default", err |-> err.text]

\* the error ReadJSON makes of the error err of the first Decode, and the
\* case of the switch that made it
MapDecodeError(err, maxBytes) ==
    IF err.type = "SyntaxError"
    THEN [case |-> "syntaxError",
          err |-> "body contains badly-formed JSON (at character "
                    \o ToString(err.Offset) \o ")"]
    ELSE IF err.type = "UnmarshalTypeError"
    THEN IF err.Field # ""
         THEN [case |-> "unmarshalTypeError",
               err |-> "body contains incorrect JSON type for field "
                         \o Quote(err.Field)]
         ELSE [case |-> "unmarshalTypeError",
               err |-> "body contains incorrect JSON type (at character "
                         \o ToString(err.Offset) \o ")"]
    ELSE IF err.type = "InvalidUnmarshalError"
    THEN [case |-> "invalidUnmarshalError",
          err |-> "error unmarshalling JSON: " \o err.text]
    ELSE IF err = ErrUnexpectedEOF
    THEN [case |-> "io.ErrUnexpectedEOF",
          err |-> "body contains badly-formed JSON"]
    ELSE IF err = EOF
    THEN [case |-> "io.EOF", err |-> "body must not be empty"]
    ELSE IF HasPrefix(err.text, "json: unknown field")
    THEN [case |-> "unknown field",
          err |-> "body contains unknown key "
                    \o TrimPrefix(err.text, "json: unknown fifeld")]
    ELSE IF err.text = "http: request body too large"
    THEN [case |-> "too large",
          err |-> "body must not be larger than " \o ToString(maxBytes)
                    \o " bytes"]
    ELSE [case |-> "default", err |-> err.text]

\* (variant: the decoder is never told to reject unknown fields)
DisallowNothing(AllowUnknownFields) == FALSE

\* if !t.AllowUnknownFields { dec.DisallowUnknownFields() }
DisallowUnknownFields(AllowUnknownFields) == ~AllowUnknownFields

\* (variant: the body is not looked at after its first value)
OneValueUnchecked(err) == TRUE

\* the second Decode must report the end of the input
OneValue(err) == err = EOF

EmptyStruct == [f \in {} |-> ""]

\* the result of ReadJSON: the error text (nil: none), the case that made
\* it, the destination as the call leaves it, and what each call of Decode
\* returned
ReadJSON(tools, body, data, dataOK) ==
    LET maxBytes == IF tools.MaxJSONSize # 0 THEN tools.MaxJSONSize
                    ELSE DefaultMaxJSONSize
        r     == MaxBytesReader(body, maxBytes)
        first == Decode(r, 0, data,
                        DisallowUnknownFields(tools.AllowUnknownFields),
                        dataOK)
    IN  IF first.err # NoError
        THEN MapDecodeError(first.err, maxBytes)
                 @@ [data |-> first.dest, decodes |-> <<first.err>>]
        ELSE LET second == Decode(r, first.scanp, EmptyStruct,
                               DisallowUnknownFields(tools.AllowUnknownFields),
                               TRUE)
             IN  IF ~OneValue(second.err)
                 THEN [case |-> "second value",
                       err |-> "body must contain only one JSON value",
                       data |-> first.dest,
                       decodes |-> <<first.err, second.err>>]
                 ELSE [case |-> "nil", err |-> nil, data |-> first.dest,
                       decodes |-> <<first.err, second.err>>]

-----------------------------------------------------------------------------
(* UploadOneFile: what it makes of the result of UploadFiles               *)

NoFile == [NewFileName |-> "", OriginalFileName |-> "", FileSize |-> -1]

\* (variant: an empty list is reported as an error)
UploadOneFileChecked(files, err) ==
    IF err # nil
    THEN [file |-> NoFile, err |-> err, panic |-> FALSE]
    ELSE IF Len(files) = 0
    THEN [file |-> NoFile, err |-> "no file uploaded", panic |-> FALSE]
    ELSE [file |-> files[1], err |-> err, panic |-> FALSE]

\* files[0] on an empty list is a run-time panic: index out of range
UploadOneFile(files, err) ==
    IF err # nil
    THEN [file |-> NoFile, err |-> err, panic |-> FALSE]
    ELSE IF Len(files) = 0
    THEN [file |-> NoFile, err |-> nil, panic |-> TRUE]
    ELSE [file |-> files[1], err |-> err, panic |-> FALSE]

\* the value handed to the caller of `via`
Returned(via, files, err) ==
    IF via = "UploadOneFile"
    THEN [via |-> via, files |-> files] @@ UploadOneFile(files, err)
    ELSE [via |-> via, files |-> files, file |-> NoFile, err |-> err,
          panic |-> FALSE]

NoRet == [via |-> "none", files |-> << >>, file |-> NoFile, err |-> nil,
          panic |-> FALSE]

\* the optional trailing argument: absent, true or false
RenameArgs == { << >>, <<TRUE>>, <<FALSE>> }

RenameFile(rename) == IF Len(rename) > 0 THEN rename[1] ELSE TRUE

-----------------------------------------------------------------------------
(* State *)

EmptyDir == [n \in {} |-> << >>]

NoCall == [via |-> "none", req |-> [wellFormed |-> TRUE, valueBytes |-> 0,
                                    parts |-> << >>],
           rename |-> << >>, renameFile |-> TRUE, order |-> << >>, idx |-> 0,
           uploadedFiles |-> << >>, err |-> nil]

NoJS == [body |-> [text |-> "", spaces |-> 0, broken |-> FALSE],
         data |-> EmptyStruct, dataOK |-> TRUE,
         res |-> [case |-> "none", err |-> nil, data |-> EmptyStruct,
                  decodes |-> << >>]]

\* nothing was called
NoFn == [name |-> "none"]

\* a response nothing was written to, and no invocation writing to it
NoW == [pc |-> "none", header |-> << >>, sent |-> << >>,
        statuses |-> << >>, body |-> "", log |-> << >>]

\* no caller of CreateDirIfNotExist
NoMk == [procs |-> << >>, errs |-> {}, made |-> 0, existed |-> 0,
         dir0 |-> "absent", refuses |-> FALSE]

NoObs == [files0 |-> EmptyDir, opened |-> << >>, stored |-> << >>,
          open |-> << >>]

InitUpload ==
    /\ t \in [MaxFileSize : {0, 256},
              AllowedFileTypes : AllowLists,
              MaxJSONSize : {0},
              AllowUnknownFields : {FALSE}]
    /\ fsDir \in DirStates
    /\ fsFiles = EmptyDir
    /\ pc = "idle"
    /\ call = NoCall
    /\ ret = NoRet
    /\ obs = NoObs
    /\ js = NoJS
    /\ fn = NoFn
    /\ w = NoW
    /\ mk = NoMk

-----------------------------------------------------------------------------
(* UploadFiles, up to its loop; UploadOneFile enters it the same way with  *)
(* the flag it computed.                                                   *)

CallUploadFiles(via, req, rename) ==
    /\ pc = "idle"
    /\ LET renameFile == RenameFile(IF via = "UploadOneFile"
                                    THEN <<RenameFile(rename)>>
                                    ELSE rename)
           MaxFileSize == IF t.MaxFileSize = 0 THEN DefaultMaxFileSize
                          ELSE t.MaxFileSize
       IN
       /\ t' = [t EXCEPT !.MaxFileSize = MaxFileSize]
       /\ \E d \in CreateDirIfNotExist(fsDir) :
            /\ fsDir' = d.dir
            /\ LET perr == ParseMultipartForm(req, MaxFileSize)
                   started == [via |-> via, req |-> req,
                               rename |-> rename, renameFile |-> renameFile,
                               order |-> << >>, idx |-> 1,
                               uploadedFiles |-> << >>, err |-> nil]
               IN
               IF d.err # nil
               THEN /\ call' = [started EXCEPT !.err = d.err]
                    /\ ret' = Returned(via, << >>, d.err)
                    /\ pc' = "returned"
               ELSE IF perr # nil
               THEN /\ call' = [started EXCEPT !.err = ParseError(perr)]
                    /\ ret' = Returned(via, << >>, ParseError(perr))
                    /\ pc' = "returned"
               ELSE /\ \E order \in IterationOrders(req.parts) :
                         call' = [started EXCEPT !.order = order]
                    /\ ret' = ret
                    /\ pc' = "loop"
    /\ obs' = [NoObs EXCEPT !.files0 = fsFiles]
    /\ UNCHANGED <<fsFiles, js, fn, w, mk>>

\* (variant: the loop goes on after a failed part)
LoopGoesOn(err) == FALSE

\* if err != nil { return uploadedFiles, err }
LoopReturns(err) == err # nil

\* one iteration of the loop: the closure on the next part, then the
\* test of its error
ProcessPart ==
    /\ pc = "loop"
    /\ call.idx <= Len(call.order)
    /\ \E r \in Closure(call.uploadedFiles, call.order[call.idx],
                        call.renameFile, t.AllowedFileTypes, fsDir, fsFiles,
                        RandomSources) :
       /\ fsFiles' = r.files
       /\ obs' = [obs EXCEPT
                    !.opened = IF r.opened THEN Append(@, call.idx) ELSE @,
                    !.stored = @ \o r.stored,
                    !.open = @ \o r.open]
       /\ IF LoopReturns(r.err)
          THEN /\ call' = [call EXCEPT !.uploadedFiles = r.uploadedFiles,
                                       !.err = r.err]
               /\ ret' = Returned(call.via, r.uploadedFiles, r.err)
               /\ pc' = "returned"
          ELSE /\ call' = [call EXCEPT !.uploadedFiles = r.uploadedFiles,
                                       !.err = r.err,
                                       !.idx = @ + 1]
               /\ ret' = ret
               /\ pc' = "loop"
    /\ UNCHANGED <<t, fsDir, js, fn, w, mk>>

\* the loop is over: return uploadedFiles, err
ReturnUploadFiles ==
    /\ pc = "loop"
    /\ call.idx > Len(call.order)
    /\ ret' = Returned(call.via, call.uploadedFiles, call.err)
    /\ pc' = "returned"
    /\ UNCHANGED <<t, fsDir, fsFiles, call, obs, js, fn, w, mk>>

NextUpload ==
    \/ \E via \in {"UploadFiles", "UploadOneFile"}, req \in Requests,
          rename \in RenameArgs : CallUploadFiles(via, req, rename)
    \/ ProcessPart
    \/ ReturnUploadFiles

SpecUpload == InitUpload /\ [][NextUpload]_vars

-----------------------------------------------------------------------------
(* ReadJSON: its inputs and its invocation                                 *)

\* what a body starts with
Heads ==
    { "{\"foo\": \"bar\"}",
      "{\"foo\":}",
      "{\"foo\": 1}",
      "[{\"foo\": \"1\"}{\"alpha\": \"beta\"}]",
      "",
      "{\"foo\": 1\"",
      "{\"fooo\": \"bar\"}",
      "{jack: \"bar\"}",
      "Hello, World!",
      "{\"foo\": \"bar\", \"fooo\": 1}",
      "{\"fooo\": \"x\", \"foo\": 1}",
      "{\"foo\": 1, \"fooo\": \"x\"}",
      "{\"foo\": \"bar\", \"foo\": 1}",
      "{\"FOO\": \"bar\"}",
      "{\"foo\": \"bar\"",
      "{\"foo\": null}",
      "null",
      "\"bar\"",
      "[1, 2]",
      "{}" }

\* what follows
Tails == { "", " ", "{\"foo\": \"baz\"}", " 17", "x", "}" }

BigSpaces == 2 * 1024 * 1024

Bodies ==
    [text : { h \o tl : h \in Heads, tl \in Tails },
     spaces : {0, BigSpaces},
     broken : BOOLEAN]

\* the destination: a struct with one string field, tagged "foo"
Datas == { [foo |-> ""], [foo |-> "old"] }

InitJSON ==
    /\ t \in [MaxFileSize : {0},
              AllowedFileTypes : { << >> },
              MaxJSONSize : {0, 5, 14, 1024},
              AllowUnknownFields : BOOLEAN]
    /\ fsDir = "absent"
    /\ fsFiles = EmptyDir
    /\ pc = "idle"
    /\ call = NoCall
    /\ ret = NoRet
    /\ obs = NoObs
    /\ js = NoJS
    /\ fn = NoFn
    /\ w = NoW
    /\ mk = NoMk

ReadJSONCall(body, data, dataOK) ==
    /\ pc = "idle"
    /\ js' = [body |-> body, data |-> data, dataOK |-> dataOK,
              res |-> ReadJSON(t, body, data, dataOK)]
    /\ pc' = "returned"
    /\ UNCHANGED <<t, fsDir, fsFiles, call, ret, obs, fn, w, mk>>

NextJSON ==
    \E body \in Bodies, data \in Datas, dataOK \in BOOLEAN :
        ReadJSONCall(body, data, dataOK)

SpecJSON == InitJSON /\ [][NextJSON]_vars

-----------------------------------------------------------------------------
(* RandomString: its inputs and its invocation                             *)

\* largest length asked of RandomString
MaxRandomLen == 2

\* a Tools value with every field at its zero value
ZeroTools == [MaxFileSize |-> 0, AllowedFileTypes |-> << >>,
              MaxJSONSize |-> 0, AllowUnknownFields |-> FALSE]

\* what the random source hands out during a call that asks for n
\* characters: one prime for each, or a failure
RandomTapes(n) == [fail : BOOLEAN, primes : [1..n -> PrimeResidues]]

\* every variable of the upload and of the JSON reader at rest
AtRest ==
    /\ t = ZeroTools
    /\ fsDir = "absent"
    /\ fsFiles = EmptyDir
    /\ pc = "idle"
    /\ call = NoCall
    /\ ret = NoRet
    /\ obs = NoObs
    /\ js = NoJS

InitRandom == AtRest /\ fn = NoFn /\ w = NoW /\ mk = NoMk

CallRandomString(n, rnd) ==
    /\ pc = "idle"
    /\ fn' = [name |-> "RandomString", n |-> n, rnd |-> rnd,
              out |-> RandomString(n, rnd)]
    /\ pc' = "returned"
    /\ UNCHANGED <<t, fsDir, fsFiles, call, ret, obs, js, w, mk>>

NextRandom ==
    \E n \in 0..MaxRandomLen : \E rnd \in RandomTapes(n) :
        CallRandomString(n, rnd)

SpecRandom == InitRandom /\ [][NextRandom]_vars

-----------------------------------------------------------------------------
(* Slugify.  A string is the sequence of its runes (code points).          *)

\* unicode.ToLower, on the runes the model uses: the ASCII letters, the
\* Latin-1 letter U+00C9 and the Kelvin sign U+212A, whose lower case is
\* the ASCII letter k; every other rune of the model has no lower case
ToLowerRune(r) ==
    IF r \in 65..90 THEN r + 32
    ELSE IF r = 201 THEN 233
    ELSE IF r = 8490 THEN 107
    ELSE r

\* strings.ToLower(s)
ToLowerRunes(s) == [i \in 1..Len(s) |-> ToLowerRune(s[i])]

\* the runes the expression [^a-z\d] does not match
KeptInSlug(r) == r \in 97..122 \/ r \in 48..57

\* re.ReplaceAllLiteralString(s, "-"), re = [^a-z\d]+ : each maximal run
\* of matching runes becomes one hyphen
RECURSIVE ReplaceAllLiteral(_)
ReplaceAllLiteral(s) ==
    IF s = << >> THEN << >>
    ELSE IF KeptInSlug(s[1]) THEN <<s[1]>> \o ReplaceAllLiteral(Tail(s))
    ELSE IF Len(s) > 1 /\ ~KeptInSlug(s[2]) THEN ReplaceAllLiteral(Tail(s))
    ELSE <<45>> \o ReplaceAllLiteral(Tail(s))

RECURSIVE TrimLeft(_, _)
TrimLeft(s, cut) ==
    IF s # << >> /\ s[1] = cut THEN TrimLeft(Tail(s), cut) ELSE s

RECURSIVE TrimRight(_, _)
TrimRight(s, cut) ==
    IF s # << >> /\ s[Len(s)] = cut
    THEN TrimRight(SubSeq(s, 1, Len(s) - 1), cut) ELSE s

\* (variant: the hyphens at the ends are left in place)
TrimNothing(s, cut) == s

\* strings.Trim(s, "-")
Trim(s, cut) == TrimRight(TrimLeft(s, cut), cut)

EmptyInput  == "empty string not permitted"
EmptyResult == "after removing characters, slug is zero length"

Slugify(s) ==
    IF s = << >> THEN [slug |-> << >>, err |-> EmptyInput]
    ELSE LET slug == Trim(ReplaceAllLiteral(ToLowerRunes(s)), 45)
         IN  IF Len(slug) = 0 THEN [slug |-> << >>, err |-> EmptyResult]
             ELSE [slug |-> slug, err |-> nil]

(* Slugify: its inputs and its invocation *)

\* longest input made of SlugRunes
MaxSlugLen == 3

\* a, Z, 1, space, hyphen, exclamation mark, U+00C9, U+212A, U+3053
SlugRunes == {97, 90, 49, 32, 45, 33, 201, 8490, 12371}

\* "Now is the time for all GOOD men! + fish & such &^123"
ComplexString ==
    <<78, 111, 119, 32, 105, 115, 32, 116, 104, 101, 32, 116, 105, 109,
       101, 32, 102, 111, 114, 32, 97, 108, 108, 32, 71, 79, 79, 68, 32,
       109, 101, 110, 33, 32, 43, 32, 102, 105, 115, 104, 32, 38, 32, 115,
       117, 99, 104, 32, 38, 94, 49, 50, 51 >>

\* "hello world" followed by seven runes of Japanese script
JapaneseAndRoman ==
    <<104, 101, 108, 108, 111, 32, 119, 111, 114, 108, 100, 32, 12371,
       12435, 12395, 12385, 12399, 19990, 30028 >>

SlugInputs ==
    UNION { [1..n -> SlugRunes] : n \in 0..MaxSlugLen }
        \cup {ComplexString, JapaneseAndRoman}

InitSlugify == AtRest /\ fn = NoFn /\ w = NoW /\ mk = NoMk

CallSlugify(s) ==
    /\ pc = "idle"
    /\ LET r == Slugify(s)
       IN  fn' = [name |-> "Slugify", s |-> s, out |-> r.slug, err |-> r.err]
    /\ pc' = "returned"
    /\ UNCHANGED <<t, fsDir, fsFiles, call, ret, obs, js, w, mk>>

NextSlugify == \E s \in SlugInputs : CallSlugify(s)

SpecSlugify == InitSlugify /\ [][NextSlugify]_vars

-----------------------------------------------------------------------------
(* CreateDirIfNotExist, step by step, for callers that run concurrently on *)
(* one path.  os.MkdirAll is itself a Stat, then a Mkdir whose "file       *)
(* exists" error it looks into.                                            *)

\* number of concurrent callers
MaxCallers == 2

\* number of calls each caller makes, one after the other
MaxCalls == 2

Callers == 1..MaxCallers

FileExists == "mkdir: file exists"

\* (variant: the error of a Mkdir that found the directory is returned)
AlreadyExistsFails(err) == err

\* os.MkdirAll after a failed Mkdir: a directory at the path is success
AlreadyExists(err) == nil

\* mk.procs[p]: where caller p is in its call, and the calls it has made;
\* mk.errs: the errors returned so far; mk.made: the directories made;
\* mk.existed: the Mkdir calls that found the directory already there;
\* mk.refuses: the filesystem does not let the directory be made
InitCreateDir ==
    /\ t = ZeroTools
    /\ fsDir \in DirStates
    /\ fsFiles = EmptyDir
    /\ pc = "idle"
    /\ call = NoCall
    /\ ret = NoRet
    /\ obs = NoObs
    /\ js = NoJS
    /\ fn = NoFn
    /\ w = NoW
    /\ \E refuses \in BOOLEAN :
          mk = [procs |-> [p \in Callers |-> [pc |-> "idle", calls |-> 0]],
                errs |-> {}, made |-> 0, existed |-> 0,
                dir0 |-> fsDir, refuses |-> refuses]

\* the call of p returns err
ReturnOf(m, p, err) ==
    [m EXCEPT !.procs[p] = [pc |-> "idle", calls |-> @.calls + 1],
              !.errs = @ \cup {err}]

\* if _, err := os.Stat(path); os.IsNotExist(err)
StatStep(p) ==
    /\ mk.procs[p].pc = "idle"
    /\ mk.procs[p].calls < MaxCalls
    /\ mk' = IF StatIsNotExist(fsDir)
             THEN [mk EXCEPT !.procs[p].pc = "MkdirAll"]
             ELSE ReturnOf(mk, p, nil)
    /\ UNCHANGED <<t, fsDir, fsFiles, pc, call, ret, obs, js, fn, w>>

\* os.MkdirAll, its first look at the path
MkdirAllStat(p) ==
    /\ mk.procs[p].pc = "MkdirAll"
    /\ mk' = IF fsDir = "present"
             THEN ReturnOf(mk, p, nil)
             ELSE [mk EXCEPT !.procs[p].pc = "Mkdir"]
    /\ UNCHANGED <<t, fsDir, fsFiles, pc, call, ret, obs, js, fn, w>>

\* os.MkdirAll, its Mkdir and what it makes of the result
MkdirStep(p) ==
    /\ mk.procs[p].pc = "Mkdir"
    /\ IF fsDir = "present"
       THEN /\ mk' = [ReturnOf(mk, p, AlreadyExists(FileExists))
                        EXCEPT !.existed = @ + 1]
            /\ UNCHANGED fsDir
       ELSE IF mk.refuses
       THEN /\ mk' = ReturnOf(mk, p, "mkdir failed")
            /\ UNCHANGED fsDir
       ELSE /\ mk' = [ReturnOf(mk, p, nil) EXCEPT !.made = @ + 1]
            /\ fsDir' = "present"
    /\ UNCHANGED <<t, fsFiles, pc, call, ret, obs, js, fn, w>>

NextCreateDir ==
    \E p \in Callers : StatStep(p) \/ MkdirAllStat(p) \/ MkdirStep(p)

SpecCreateDir == InitCreateDir /\ [][NextCreateDir]_vars

-----------------------------------------------------------------------------
(* encoding/json.Marshal, for the values the writers are given             *)

\* a character of a string, as Marshal writes it inside the quotes
EscapeChar(c) ==
    IF c = "\"" THEN "\\\""
    ELSE IF c = "\\" THEN "\\\\"
    ELSE IF c = "<" THEN "\\u003c"
    ELSE IF c = ">" THEN "\\u003e"
    ELSE IF c = "&" THEN "\\u0026"
    ELSE c

RECURSIVE Escape(_)
Escape(str) ==
    IF str = "" THEN ""
    ELSE EscapeChar(Char(str, 1)) \o Escape(SubSeq(str, 2, Len(str)))

JSONString(str) == Quote(Escape(str))

\* (variant: the data field is written also when it holds nothing)
OmitNever(v) == FALSE

\* `json:"data,omitempty"` on a field of type any: left out when nil
OmitEmpty(v) == v = [kind |-> "nil"]

UnsupportedType == "json: unsupported type: chan int"

\* the values handed to the writers: nil, a string, a channel (which
\* Marshal cannot write), or a JSONResponse whose Data is one of the first
\* three.  Marshal gives the text or the error.
MarshalPlain(v) ==
    IF v.kind = "nil" THEN [out |-> "null", err |-> nil]
    ELSE IF v.kind = "string" THEN [out |-> JSONString(v.str), err |-> nil]
    ELSE [out |-> "", err |-> UnsupportedType]

Marshal(v) ==
    IF v.kind # "JSONResponse" THEN MarshalPlain(v)
    ELSE LET d == MarshalPlain(v.Data)
         IN  IF OmitEmpty(v.Data)
             THEN [out |-> "{\"error\":"
                             \o (IF v.Error THEN "true" ELSE "false")
                             \o ",\"message\":" \o JSONString(v.Message)
                             \o "}",
                   err |-> nil]
             ELSE IF d.err # nil THEN d
             ELSE [out |-> "{\"error\":"
                             \o (IF v.Error THEN "true" ELSE "false")
                             \o ",\"message\":" \o JSONString(v.Message)
                             \o ",\"data\":" \o d.out \o "}",
                   err |-> nil]

-----------------------------------------------------------------------------
(* WriteJSON and ErrorJSON, step by step, on an http.ResponseWriter.       *)
(* w.header is w.Header(), a map from keys to lists of values; w.sent is   *)
(* the header as it was when the status was written, which is what the     *)
(* client gets; w.statuses are the codes given to WriteHeader.             *)

StatusBadRequest == 400

NoHeader == [k \in {} |-> << >>]

\* w.Header()[k] = v for every k, v of the extra header
CopyHeader(header, extra) ==
    [k \in DOMAIN header \cup DOMAIN extra |->
        IF k \in DOMAIN extra THEN extra[k] ELSE header[k]]

\* w.Header().Set(key, value)
HeaderSet(header, key, value) ==
    [k \in DOMAIN header \cup {key} |->
        IF k = key THEN <<value>> ELSE header[k]]

\* (variant: the status is 200 when none is given)
StatusCodeOK(status) == IF Len(status) > 0 THEN status[1] ELSE 200

\* the status ErrorJSON writes
StatusCode(status) ==
    IF Len(status) > 0 THEN status[1] ELSE StatusBadRequest

\* (variant: the status is written before the content type is set)
StepAfterStatusFirst(step, headers) ==
    IF step = "marshal"
    THEN IF Len(headers) > 0 THEN "headers" ELSE "WriteHeader"
    ELSE IF step = "headers" THEN "WriteHeader"
    ELSE IF step = "WriteHeader" THEN "Content-Type"
    ELSE IF step = "Content-Type" THEN "Write"
    ELSE "return"

\* the statement of WriteJSON that follows `step` when that did not return
StepAfter(step, headers) ==
    IF step = "marshal"
    THEN IF Len(headers) > 0 THEN "headers" ELSE "Content-Type"
    ELSE IF step = "headers" THEN "Content-Type"
    ELSE IF step = "Content-Type" THEN "WriteHeader"
    ELSE IF step = "WriteHeader" THEN "Write"
    ELSE "return"

(* Inputs *)

NilValue == [kind |-> "nil"]
Chan     == [kind |-> "chan"]

Messages == {"some error", "foo", "a \"b\" <c> & \\d", ""}

Values ==
    {NilValue, Chan, [kind |-> "string", str |-> "foo"]}
      \cup [kind : {"JSONResponse"}, Error : BOOLEAN, Message : {"foo"},
            Data : {NilValue, Chan, [kind |-> "string", str |-> "bar"]}]

ExtraHeaders ==
    { NoHeader,
      [k \in {"Foo"} |-> <<"BAR">>],
      [k \in {"Content-Type"} |-> <<"text/html">>],
      [k \in {"Content-Type", "Foo"} |->
          IF k = "Foo" THEN <<"BAR">> ELSE <<"text/html">>] }

\* the optional last arguments of WriteJSON
HeaderArgs ==
    { << >> } \cup { <<h>> : h \in ExtraHeaders }
              \cup { <<[k \in {"Foo"} |-> <<"BAR">>], NoHeader>> }

\* the optional last arguments of ErrorJSON
StatusArgs == { << >>, <<503>>, <<500, 200>> }

Statuses == {200, 503}

\* the header of the response before the call
Headers0 == { NoHeader, [k \in {"Content-Type"} |-> <<"text/plain">>] }

InitWrite ==
    /\ AtRest
    /\ fn = NoFn
    /\ mk = NoMk
    /\ \E h \in Headers0 :
          w = [NoW EXCEPT !.header = h]

\* the locals of an invocation of WriteJSON
Started(via, status, data, headers, header0) ==
    [pc |-> "marshal", via |-> via, status |-> status, data |-> data,
     headers |-> headers, header0 |-> header0, header |-> header0,
     sent |-> << >>, statuses |-> << >>, body |-> "", log |-> << >>,
     out |-> "", err |-> nil]

CallWriteJSON(status, data, headers) ==
    /\ pc = "idle"
    /\ w' = Started("WriteJSON", status, data, headers, w.header)
    /\ pc' = "writing"
    /\ UNCHANGED <<t, fsDir, fsFiles, call, ret, obs, js, fn, mk>>

CallErrorJSON(err, status) ==
    /\ pc = "idle"
    /\ LET payload == [kind |-> "JSONResponse", Error |-> TRUE,
                       Message |-> err, Data |-> NilValue]
       IN  w' = Started("ErrorJSON", StatusCode(status), payload, << >>,
                        w.header)
                   @@ [errText |-> err, statusArgs |-> status]
    /\ pc' = "writing"
    /\ UNCHANGED <<t, fsDir, fsFiles, call, ret, obs, js, fn, mk>>

\* out, err := json.Marshal(data); if err != nil { return err }
MarshalStep ==
    /\ pc = "writing" /\ w.pc = "marshal"
    /\ LET m == Marshal(w.data)
       IN  IF m.err # nil
           THEN /\ w' = [w EXCEPT !.pc = "return", !.err = m.err]
                /\ pc' = "returned"
           ELSE /\ w' = [w EXCEPT !.pc = StepAfter("marshal", w.headers),
                                  !.out = m.out]
                /\ UNCHANGED pc
    /\ UNCHANGED <<t, fsDir, fsFiles, call, ret, obs, js, fn, mk>>

\* for k, v := range headers[0] { w.Header()[k] = v }
CopyHeadersStep ==
    /\ pc = "writing" /\ w.pc = "headers"
    /\ w' = [w EXCEPT !.pc = StepAfter("headers", w.headers),
                      !.header = CopyHeader(@, w.headers[1]),
                      !.log = Append(@, "headers")]
    /\ UNCHANGED <<t, fsDir, fsFiles, pc, call, ret, obs, js, fn, mk>>

\* w.Header().Set("Content-Type", "application/json")
ContentTypeStep ==
    /\ pc = "writing" /\ w.pc = "Content-Type"
    /\ w' = [w EXCEPT !.pc = StepAfter("Content-Type", w.headers),
                      !.header = HeaderSet(@, "Content-Type",
                                           "application/json"),
                      !.log = Append(@, "Content-Type")]
    /\ UNCHANGED <<t, fsDir, fsFiles, pc, call, ret, obs, js, fn, mk>>

\* w.WriteHeader(status): the status and the header as it is now are sent
WriteHeaderStep ==
    /\ pc = "writing" /\ w.pc = "WriteHeader"
    /\ w' = [w EXCEPT !.pc = StepAfter("WriteHeader", w.headers),
                      !.statuses = Append(@, w.status),
                      !.sent = IF w.statuses = << >> THEN w.header ELSE @,
                      !.log = Append(@, "WriteHeader")]
    /\ UNCHANGED <<t, fsDir, fsFiles, pc, call, ret, obs, js, fn, mk>>

\* if _, err := w.Write(out); err != nil { return err }; return nil
WriteStep ==
    /\ pc = "writing" /\ w.pc = "Write"
    /\ \E failed \in BOOLEAN :
          w' = [w EXCEPT !.pc = "return",
                         !.body = IF failed THEN @ ELSE @ \o w.out,
                         !.err = IF failed THEN "write failed" ELSE nil,
                         !.log = Append(@, "Write")]
    /\ pc' = "returned"
    /\ UNCHANGED <<t, fsDir, fsFiles, call, ret, obs, js, fn, mk>>

NextWrite ==
    \/ \E status \in Statuses, data \in Values, headers \in HeaderArgs :
          CallWriteJSON(status, data, headers)
    \/ \E err \in Messages, status \in StatusArgs : CallErrorJSON(err, status)
    \/ MarshalStep
    \/ CopyHeadersStep
    \/ ContentTypeStep
    \/ WriteHeaderStep
    \/ WriteStep

SpecWrite == InitWrite /\ [][NextWrite]_vars

-----------------------------------------------------------------------------
(* PushJSONToRemote, step by step.  fn holds the locals of the invocation, *)
(* what it returned and what its caller then read from the response.       *)

\* the value of a *http.Response that is nil
NoResponse == [StatusCode |-> 0, Body |-> [kind |-> "none", content |-> "",
                                          closed |-> FALSE]]

\* the optional last argument: none, the client of the test (its transport
\* is a function that answers 200 "ok" with an io.NopCloser body and never
\* fails), or a client with a transport of net/http
ClientArgs == { << >>, <<"test client">>, <<"custom client">> }

URIs == { "http://example.com/some/path", "://example.com" }

\* http.NewRequest(method, uri, body): the uri must parse, and a uri that
\* starts with a colon has no scheme
NewRequest(method, uri, body) ==
    IF HasPrefix(uri, ":")
    THEN [request |-> [method |-> "", uri |-> "", body |-> "",
                       header |-> NoHeader],
          err |-> "parse " \o Quote(uri) \o ": missing protocol scheme"]
    ELSE [request |-> [method |-> method, uri |-> uri, body |-> body,
                       header |-> NoHeader],
          err |-> nil]

\* what the remote side may answer
RemoteStatuses == {200, 500}
RemoteBodies == {"ok", ""}

\* httpClient.Do(request): every outcome it can have
Do(httpClient, request) ==
    IF httpClient = "test client"
    THEN { [response |-> [StatusCode |-> 200,
                          Body |-> [kind |-> "io.NopCloser",
                                    content |-> "ok", closed |-> FALSE]],
            err |-> nil] }
    ELSE { [response |-> NoResponse,
            err |-> "Post " \o Quote(request.uri)
                      \o ": dial tcp: connection refused"] }
         \cup { [response |-> [StatusCode |-> s,
                               Body |-> [kind |-> "net/http",
                                         content |-> c, closed |-> FALSE]],
                 err |-> nil] : s \in RemoteStatuses, c \in RemoteBodies }

\* response.Body.Close()
CloseBody(response) == [response EXCEPT !.Body.closed = TRUE]

\* io.ReadAll(response.Body) by the caller: a body of net/http refuses to be
\* read once it was closed, a NopCloser does not notice
ReadAll(Body) ==
    IF Body.closed /\ Body.kind = "net/http"
    THEN [data |-> "", err |-> "http: read on closed response body"]
    ELSE [data |-> Body.content, err |-> nil]

NotReturned == [response |-> NoResponse, StatusCode |-> -1, err |-> nil]
NotRead == [data |-> "", err |-> "not read"]

InitPush == AtRest /\ fn = NoFn /\ w = NoW /\ mk = NoMk

CallPushJSONToRemote(uri, data, client) ==
    /\ pc = "idle"
    /\ fn' = [name |-> "PushJSONToRemote", pc |-> "marshal",
              uri |-> uri, data |-> data, client |-> client,
              jsonData |-> "", httpClient |-> "",
              request |-> NewRequest("", ":", "").request,
              response |-> NoResponse, deferred |-> << >>, attempts |-> 0,
              ret |-> NotReturned, read |-> NotRead]
    /\ pc' = "pushing"
    /\ UNCHANGED <<t, fsDir, fsFiles, call, ret, obs, js, w, mk>>

\* return of PushJSONToRemote: the deferred calls run, then the caller has
\* the results
PushReturns(f, response, statusCode, err) ==
    LET closes == "response.Body.Close" \in { f.deferred[i] :
                                                i \in 1..Len(f.deferred) }
    IN  [f EXCEPT !.pc = "return",
                  !.ret = [response |-> IF closes THEN CloseBody(response)
                                        ELSE response,
                           StatusCode |-> statusCode, err |-> err]]

\* jsonData, err := json.Marshal(data); if err != nil { return nil, 0, err }
PushMarshalStep ==
    /\ pc = "pushing" /\ fn.pc = "marshal"
    /\ LET m == Marshal(fn.data)
       IN  IF m.err # nil
           THEN /\ fn' = PushReturns(fn, NoResponse, 0, m.err)
                /\ pc' = "returned"
           ELSE /\ fn' = [fn EXCEPT !.pc = "client", !.jsonData = m.out]
                /\ UNCHANGED pc
    /\ UNCHANGED <<t, fsDir, fsFiles, call, ret, obs, js, w, mk>>

\* httpClient := &http.Client{}; if len(client) > 0 { httpClient = client[0] }
PushClientStep ==
    /\ pc = "pushing" /\ fn.pc = "client"
    /\ fn' = [fn EXCEPT !.pc = "NewRequest",
                        !.httpClient = IF Len(fn.client) > 0 THEN fn.client[1]
                                       ELSE "http.Client{}"]
    /\ UNCHANGED <<t, fsDir, fsFiles, pc, call, ret, obs, js, w, mk>>

\* request, err := http.NewRequest("POST", uri, bytes.NewBuffer(jsonData));
\* request.Header.Set("Content-Type", "application/json")
PushNewRequestStep ==
    /\ pc = "pushing" /\ fn.pc = "NewRequest"
    /\ LET r == NewRequest("POST", fn.uri, fn.jsonData)
       IN  IF r.err # nil
           THEN /\ fn' = PushReturns(fn, NoResponse, 0, r.err)
                /\ pc' = "returned"
           ELSE /\ fn' = [fn EXCEPT
                            !.pc = "Do",
                            !.request =
                                [r.request EXCEPT
                                   !.header = HeaderSet(@, "Content-Type",
                                                        "application/json")]]
                /\ UNCHANGED pc
    /\ UNCHANGED <<t, fsDir, fsFiles, call, ret, obs, js, w, mk>>

\* response, err := httpClient.Do(request); if err != nil { return nil, 0,
\* err }; defer response.Body.Close()
PushDoStep ==
    /\ pc = "pushing" /\ fn.pc = "Do"
    /\ \E d \in Do(fn.httpClient, fn.request) :
          LET done == [fn EXCEPT !.attempts = @ + 1]
          IN  IF d.err # nil
              THEN /\ fn' = PushReturns(done, NoResponse, 0, d.err)
                   /\ pc' = "returned"
              ELSE /\ fn' = [done EXCEPT
                               !.pc = "send back",
                               !.response = d.response,
                               !.deferred = Append(@, "response.Body.Close")]
                   /\ UNCHANGED pc
    /\ UNCHANGED <<t, fsDir, fsFiles, call, ret, obs, js, w, mk>>

\* return response, response.StatusCode, nil
PushReturnStep ==
    /\ pc = "pushing" /\ fn.pc = "send back"
    /\ fn' = PushReturns(fn, fn.response, fn.response.StatusCode, nil)
    /\ pc' = "returned"
    /\ UNCHANGED <<t, fsDir, fsFiles, call, ret, obs, js, w, mk>>

\* the caller reads the body of the response it was given
CallerReadsBody ==
    /\ pc = "returned" /\ fn.name = "PushJSONToRemote"
    /\ fn.ret.err = nil /\ fn.ret.response # NoResponse
    /\ fn.read = NotRead
    /\ fn' = [fn EXCEPT !.read = ReadAll(fn.ret.response.Body)]
    /\ UNCHANGED <<t, fsDir, fsFiles, pc, call, ret, obs, js, w, mk>>

NextPush ==
    \/ \E uri \in URIs, data \in Values, client \in ClientArgs :
          CallPushJSONToRemote(uri, data, client)
    \/ PushMarshalStep
    \/ PushClientStep
    \/ PushNewRequestStep
    \/ PushDoStep
    \/ PushReturnStep
    \/ CallerReadsBody

SpecPush == InitPush /\ [][NextPush]_vars

-----------------------------------------------------------------------------
(* Properties of the upload ingestor                                       *)

TypeNotPermitted == "the uploaded file type is not permitted"
UploadTooBig     == "the uploaded file is too big"

\* errors of a part that come before its type is looked at
BeforeSniff == {"open failed", "read failed", "EOF"}

\* the type sniffed from the part fh
SniffedType(fh) ==
    DetectContentType(
        Buff(Bytes(fh.data), 0, Min(sniffLen, Len(Bytes(fh.data)))))

RECURSIVE ToLower(_)
ToLower(s) ==
    IF s = "" THEN ""
    ELSE ToLowerChar(Char(s, 1)) \o ToLower(SubSeq(s, 2, Len(s)))

\* the accept rule: any type when the list is empty, else a
\* case-insensitive match with one entry
AcceptRule(fileType, list) ==
    \/ list = << >>
    \/ \E i \in 1..Len(list) : ToLower(list[i]) = ToLower(fileType)

\* the directory after the files of `stored` were written over `files`
RECURSIVE Replay(_, _, _)
Replay(files, stored, i) ==
    IF i > Len(stored) THEN files
    ELSE Replay(WriteFile(files, stored[i].name, Bytes(stored[i].data)),
                stored, i + 1)

Returned1 == pc = "returned" /\ call.via # "none"

\* C1: when a part fails after earlier parts were stored, UploadFiles
\* returns the records of those earlier parts together with the error
C1_PartialRecordsReturned ==
    (Returned1 /\ ret.via = "UploadFiles" /\ ret.err # nil
        /\ Len(obs.stored) > 0)
    => /\ Len(ret.files) = Len(obs.stored)
       /\ \A i \in 1..Len(ret.files) :
            ret.files[i].NewFileName = obs.stored[i].name

\* C2 (as stated): on success the list holds one record per part, in the
\* order of the parts in the body
C2_RecordsInBodyOrder ==
    (Returned1 /\ call.err = nil)
    => /\ Len(call.uploadedFiles) = Len(call.req.parts)
       /\ \A i \in 1..Len(call.uploadedFiles) :
            /\ call.uploadedFiles[i].OriginalFileName
                  = call.req.parts[i].Filename
            /\ call.uploadedFiles[i].FileSize
                  = Len(Bytes(call.req.parts[i].data))

\* C2 (amended): on success the list holds one record per part; record i
\* is that of the i-th part in the iteration order of the form's field map,
\* which keeps the body order among the parts of one field name only
C2_RecordsInFieldOrder ==
    (Returned1 /\ call.err = nil)
    => /\ Len(call.uploadedFiles) = Len(call.req.parts)
       /\ Len(call.order) = Len(call.req.parts)
       /\ \A i \in 1..Len(call.uploadedFiles) :
            /\ call.uploadedFiles[i].OriginalFileName = call.order[i].Filename
            /\ call.uploadedFiles[i].FileSize = Len(Bytes(call.order[i].data))
       /\ \A f \in FieldsOf(call.req.parts) :
            FileHeaders(call.order, f) = FileHeaders(call.req.parts, f)

\* a successful upload of two parts whose records are not in body order
C2_Witness ==
    /\ Returned1 /\ call.err = nil
    /\ Len(call.uploadedFiles) = 2
    /\ call.order # call.req.parts

\* C3: a part whose sniffed type is not in the non-empty allow-list makes
\* UploadFiles fail with the type error and stop: that part and the later
\* ones leave no file, no later part is opened, and the directory holds
\* exactly what the parts before it wrote
C3_RejectionAborts ==
    /\ (Returned1 /\ call.err = TypeNotPermitted)
       => /\ call.idx <= Len(call.order)
          /\ Len(t.AllowedFileTypes) > 0
          /\ obs.opened = [i \in 1..call.idx |-> i]
          /\ Len(obs.stored) = call.idx - 1
          /\ \A i \in 1..Len(obs.stored) :
                obs.stored[i].data = call.order[i].data
          /\ fsFiles = Replay(obs.files0, obs.stored, 1)
    /\ (Returned1 /\ call.idx <= Len(call.order)
          /\ call.err \notin BeforeSniff
          /\ ~AcceptRule(SniffedType(call.order[call.idx]),
                         t.AllowedFileTypes))
       => call.err = TypeNotPermitted

\* a rejection after an earlier part was stored
C3_Witness ==
    /\ Returned1 /\ call.err = TypeNotPermitted
    /\ call.idx = 2 /\ Len(obs.stored) = 1
    /\ fsFiles # obs.files0

\* C4: a part is accepted iff the allow-list is empty or the sniffed type
\* matches one entry case-insensitively
C4_AcceptIffRule ==
    /\ (Returned1 /\ call.idx <= Len(call.order)
          /\ call.err \notin BeforeSniff)
       => (call.err = TypeNotPermitted
             <=> ~AcceptRule(SniffedType(call.order[call.idx]),
                             t.AllowedFileTypes))
    /\ \A i \in 1..Len(call.uploadedFiles) :
          AcceptRule(SniffedType(call.order[i]), t.AllowedFileTypes)

\* a part accepted through an entry that differs from its type in case
C4_Witness ==
    /\ Len(call.uploadedFiles) = 1
    /\ call.order[1].data = "png"
    /\ t.AllowedFileTypes = <<"IMAGE/PNG", "text/plain; charset=utf-8">>

\* whether every character of s is one of randomStringSource
InAlphabet(s) ==
    \A i \in 1..Len(s) :
        \E j \in 1..Len(randomStringSource) :
            Char(s, i) = Char(randomStringSource, j)

\* the naming policy of a stored part: the flag is true when the optional
\* argument is absent
NamedByPolicy(rename, uploadedFile, Filename) ==
    /\ uploadedFile.OriginalFileName = Filename
    /\ IF rename = << >> \/ rename[1]
       THEN /\ Len(uploadedFile.NewFileName) = 25 + Len(Ext(Filename))
            /\ InAlphabet(SubSeq(uploadedFile.NewFileName, 1, 25))
            /\ SubSeq(uploadedFile.NewFileName, 26,
                      Len(uploadedFile.NewFileName)) = Ext(Filename)
       ELSE uploadedFile.NewFileName = Filename

\* C5: every stored part keeps the client's file name as OriginalFileName
\* and is named by the policy: 25 characters of the alphabet plus the
\* extension when renaming (the default), the original name otherwise;
\* the same through UploadOneFile
C5_NamingPolicy ==
    /\ \A i \in 1..Len(call.uploadedFiles) :
          NamedByPolicy(call.rename, call.uploadedFiles[i],
                        call.order[i].Filename)
    /\ (Returned1 /\ ret.via = "UploadOneFile" /\ ret.file # NoFile)
       => NamedByPolicy(call.rename, ret.file, call.order[1].Filename)

\* C5, restricted to the names RandomString made without its error path
C5_NamingPolicyUnlessRandomFails ==
    /\ \A i \in 1..Len(call.uploadedFiles) :
          \/ HasPrefix(call.uploadedFiles[i].NewFileName, RandomStringError)
          \/ NamedByPolicy(call.rename, call.uploadedFiles[i],
                           call.order[i].Filename)
    /\ (Returned1 /\ ret.via = "UploadOneFile" /\ ret.file # NoFile)
       => \/ HasPrefix(ret.file.NewFileName, RandomStringError)
          \/ NamedByPolicy(call.rename, ret.file, call.order[1].Filename)

\* C6: the sniff read takes nothing from the copy: the file of a stored
\* part holds all the bytes of the part and FileSize is their number
C6_WholePartCopied ==
    /\ \A i \in 1..Len(call.uploadedFiles) :
          call.uploadedFiles[i].FileSize = Len(Bytes(call.order[i].data))
    /\ Len(call.uploadedFiles) > 0
       => LET n == Len(call.uploadedFiles)
          IN  /\ call.uploadedFiles[n].NewFileName \in DOMAIN fsFiles
              /\ fsFiles[call.uploadedFiles[n].NewFileName]
                    = Bytes(call.order[n].data)

\* a stored part longer than the sniffed prefix
C6_Witness ==
    /\ Len(call.uploadedFiles) > 0
    /\ call.order[Len(call.uploadedFiles)].data = "png"
    /\ call.uploadedFiles[Len(call.uploadedFiles)].FileSize > sniffLen

\* the parse of the body failed (the directory was there or was made)
ParseFailed ==
    /\ Returned1
    /\ call.err # "mkdir failed"
    /\ ParseMultipartForm(call.req, t.MaxFileSize) # nil

\* C7: a failed parse returns no record and writes no file,
\* and a malformed body is not reported with the error of a too large one
C7_ParseCausesDistinguished ==
    ParseFailed
    => /\ ret.files = << >>
       /\ ret.err # nil
       /\ fsFiles = obs.files0
       /\ (~call.req.wellFormed => ret.err # UploadTooBig)

\* what the code does at a failed parse: it returns no record and the one
\* error "the uploaded file is too big", whatever made the parse fail, and
\* writes no file
C7_ParseFailureIsTooBig ==
    /\ ParseFailed
       => /\ ret.files = << >>
          /\ ret.err = UploadTooBig
          /\ fsFiles = obs.files0
          /\ obs.opened = << >>
    /\ (Returned1 /\ call.err = UploadTooBig) => ParseFailed
    /\ (Returned1 /\ call.req.wellFormed
          /\ call.req.valueBytes = BigValueBytes
          /\ t.MaxFileSize = DefaultMaxFileSize)
       => call.err # UploadTooBig

\* a malformed body, reported as too big
C7_Witness ==
    /\ ParseFailed
    /\ ~call.req.wellFormed
    /\ ret.err = UploadTooBig

\* C8: through UploadOneFile a body without file parts ends in an index
\* out of range, with no record and no error value; an error of
\* UploadFiles is handed on with a nil record
C8_OneFileOfNone ==
    (Returned1 /\ ret.via = "UploadOneFile")
    => /\ (call.err = nil /\ Len(call.uploadedFiles) = 0)
          => (ret.panic /\ ret.file = NoFile /\ ret.err = nil)
       /\ (call.err = nil /\ Len(call.req.parts) = 0)
          => ret.panic
       /\ call.err # nil
          => (~ret.panic /\ ret.file = NoFile /\ ret.err = call.err)
       /\ (call.err = nil /\ Len(call.uploadedFiles) > 0)
          => (~ret.panic /\ ret.file = call.uploadedFiles[1])

\* UploadOneFile on a well-formed body without file parts
C8_Witness ==
    /\ Returned1 /\ ret.via = "UploadOneFile"
    /\ call.req.parts = << >>
    /\ ret.panic

-----------------------------------------------------------------------------
(* Properties of ReadJSON                                                  *)

ReturnedJSON == pc = "returned" /\ js.res.case # "none"

OnlyOneValue == "body must contain only one JSON value"

\* the text is one JSON value, with nothing but white space around it
ExactlyOneValue(text) ==
    LET v == ScanValue(text, 1)
    IN  v.st = "ok" /\ SkipSpace(text, v.pos) > Len(text)

\* C9: ReadJSON succeeds only on a body that is exactly one JSON value;
\* once the first value has decoded, a second Decode is made, and ReadJSON
\* succeeds if that reports the end of the input and fails with "body must
\* contain only one JSON value" if it reports anything else.
C9_ExactlyOneValue ==
    ReturnedJSON =>
        /\ js.res.err = nil => ExactlyOneValue(js.body.text)
        /\ js.res.decodes[1] = NoError =>
              /\ Len(js.res.decodes) = 2
              /\ js.res.decodes[2] = EOF => js.res.err = nil
              /\ js.res.decodes[2] # EOF => js.res.err = OnlyOneValue

\* two objects, each well-formed on its own, one after the other
C9_Witness ==
    /\ ReturnedJSON
    /\ js.body = [text |-> "{\"foo\": \"bar\"}{\"foo\": \"baz\"}",
                  spaces |-> 0, broken |-> FALSE]
    /\ js.res.decodes[1] = NoError
    /\ js.res.err = OnlyOneValue

\* the keys of the body's object that name no field of the destination
UnknownKeys(text, data) ==
    LET v == ScanValue(text, 1)
    IN  IF v.st = "ok" /\ v.val.type = "object"
        THEN SelectSeq([i \in 1..Len(v.val.members) |-> v.val.members[i].key],
                       LAMBDA k : FieldsNamed(data, k) = {})
        ELSE << >>

\* the body's object without the members that name no field
KnownMembers(text, data) ==
    LET v == ScanValue(text, 1)
    IN  [type |-> "object",
         members |-> SelectSeq(v.val.members,
                         LAMBDA m : FieldsNamed(data, m.key) # {})]

MaxBytesOf(tools) ==
    IF tools.MaxJSONSize # 0 THEN tools.MaxJSONSize ELSE DefaultMaxJSONSize

TooLargeMessage(maxBytes) ==
    "body must not be larger than " \o ToString(maxBytes) \o " bytes"

\* the body has no other defect than its length: ReadJSON accepts it when
\* the limit is the length of the body
AcceptedButForSize(tools, body, data, dataOK) ==
    ReadJSON([tools EXCEPT !.MaxJSONSize = BodyLen(body)],
             body, data, dataOK).err = nil

\* C11: a body longer than the limit (MaxJSONSize, 1 MiB when that is 0)
\* makes ReadJSON fail with "body must not be larger than <limit> bytes",
\* wherever in the body the limit is crossed, inside the first value or
\* after it (stated of the bodies that have no other defect)
C11_TooLargeReported ==
    (ReturnedJSON /\ BodyLen(js.body) > MaxBytesOf(t)
        /\ AcceptedButForSize(t, js.body, js.data, js.dataOK))
    => js.res.err = TooLargeMessage(MaxBytesOf(t))

\* what the code does with a body longer than the limit: ReadJSON fails,
\* with the too-large error exactly when the first Decode met the limit
C11_OverLimitFails ==
    (ReturnedJSON /\ BodyLen(js.body) > MaxBytesOf(t))
    => /\ js.res.err # nil
       /\ js.res.err = TooLargeMessage(MaxBytesOf(t))
            <=> js.res.decodes[1] = BodyTooLarge

\* the messages of the taxonomy: empty body, malformed JSON, type mismatch,
\* unknown key, body too large, trailing content
InTaxonomy(err, maxBytes) ==
    \/ err = "body must not be empty"
    \/ err = "body contains badly-formed JSON"
    \/ HasPrefix(err, "body contains badly-formed JSON (at character ")
    \/ HasPrefix(err, "body contains incorrect JSON type ")
    \/ HasPrefix(err, "body contains unknown key ")
    \/ err = TooLargeMessage(maxBytes)
    \/ err = OnlyOneValue

\* white space only
RECURSIVE Blank(_)
Blank(text) ==
    text = "" \/ (isSpace(Char(text, 1)) /\ Blank(SubSeq(text, 2, Len(text))))

\* C12 (as stated): every failure of ReadJSON is a member of the taxonomy,
\* and none comes through the pass-through branch of the switch
C12_ClosedTaxonomy ==
    (ReturnedJSON /\ js.res.err # nil)
    => /\ InTaxonomy(js.res.err, MaxBytesOf(t))
       /\ js.res.case # "default"

\* C12 (amended): a failure of ReadJSON is a member of the taxonomy unless
\* the body could not be read for another reason than its size, which
\* reaches the caller unchanged through the pass-through branch, or the
\* destination is no valid pointer, which is reported as an unmarshalling
\* error; a body of white space only, read to its end within the limit,
\* is reported as empty
C12_TaxonomyOrPassThrough ==
    (ReturnedJSON /\ js.res.err # nil)
    => /\ \/ InTaxonomy(js.res.err, MaxBytesOf(t))
          \/ /\ js.res.case = "default"
             /\ js.body.broken
             /\ js.res.err = ReadFailed.text
          \/ /\ js.res.case = "invalidUnmarshalError"
             /\ ~js.dataOK
             /\ js.res.err = "error unmarshalling JSON: "
                               \o InvalidUnmarshalError.text
       /\ js.res.case = "default" => ~InTaxonomy(js.res.err, MaxBytesOf(t))
       /\ (Blank(js.body.text) /\ ~js.body.broken
             /\ BodyLen(js.body) <= MaxBytesOf(t))
          => js.res.err = "body must not be empty"

\* a read error of the body, handed on unchanged
C12_Witness ==
    /\ ReturnedJSON
    /\ js.res.case = "default"
    /\ js.res.err = ReadFailed.text
    /\ js.body.text = "{\"foo\": \"bar\""

-----------------------------------------------------------------------------
(* Properties of RandomString                                              *)

\* the index of the character c in randomStringSource, counted from 0
IndexInSource(c) ==
    CHOOSE k \in 0..(Len(randomStringSource) - 1) :
        Char(randomStringSource, k + 1) = c

\* C13: RandomString(n) returns exactly n characters, each one of the 64
\* of the alphabet, on every path, also when the random source fails
C13_ExactlyNOfAlphabet ==
    fn.name = "RandomString"
    => /\ Len(fn.out) = fn.n
       /\ InAlphabet(fn.out)

\* what holds on the paths where the random source does not fail
C13_ExactlyNUnlessSourceFails ==
    (fn.name = "RandomString" /\ ~fn.rnd.fail)
    => /\ Len(fn.out) = fn.n
       /\ InAlphabet(fn.out)

\* C14: the index computed for a position can take every value 0..63, so
\* that each of the 64 characters can occur at each position of the result
C14_EveryIndexPossible ==
    (fn.name = "RandomString" /\ fn.n > 0)
    => \A i \in 1..fn.n : \A k \in 0..(Len(randomStringSource) - 1) :
          \E rnd \in RandomTapes(fn.n) :
              /\ ~rnd.fail
              /\ Char(RandomString(fn.n, rnd), i)
                    = Char(randomStringSource, k + 1)

\* what the code does: every index it computes is odd
C14_OnlyOddIndices ==
    (fn.name = "RandomString" /\ ~fn.rnd.fail)
    => \A i \in 1..Len(fn.out) : IndexInSource(Char(fn.out, i)) % 2 = 1

-----------------------------------------------------------------------------
(* Properties of Slugify                                                   *)

\* the reference transformation: the words of the lower-cased input (its
\* maximal runs of a-z and 0-9), joined by single hyphens
RECURSIVE SlugWords(_, _, _)
SlugWords(s, word, words) ==
    IF s = << >>
    THEN IF word = << >> THEN words ELSE Append(words, word)
    ELSE IF s[1] \in 97..122 \/ s[1] \in 48..57
    THEN SlugWords(Tail(s), Append(word, s[1]), words)
    ELSE SlugWords(Tail(s), << >>,
                   IF word = << >> THEN words ELSE Append(words, word))

RECURSIVE JoinWords(_)
JoinWords(words) ==
    IF words = << >> THEN << >>
    ELSE IF Len(words) = 1 THEN words[1]
    ELSE words[1] \o <<45>> \o JoinWords(Tail(words))

ReferenceSlug(s) == JoinWords(SlugWords(ToLowerRunes(s), << >>, << >>))

\* "now-is-the-time-for-all-good-men-fish-such-123"
ComplexSlug ==
    <<110, 111, 119, 45, 105, 115, 45, 116, 104, 101, 45, 116, 105, 109,
       101, 45, 102, 111, 114, 45, 97, 108, 108, 45, 103, 111, 111, 100,
       45, 109, 101, 110, 45, 102, 105, 115, 104, 45, 115, 117, 99, 104,
       45, 49, 50, 51 >>

\* C15: Slugify fails with the empty-input error on the empty string;
\* else its result is the reference slug of the input, and when that is
\* empty it fails with the empty-result error, another error than the
\* first, and returns the empty string
C15_SlugifyIsReference ==
    fn.name = "Slugify"
    => IF fn.s = << >>
       THEN fn.out = << >> /\ fn.err = EmptyInput
       ELSE IF ReferenceSlug(fn.s) = << >>
       THEN fn.out = << >> /\ fn.err = EmptyResult /\ fn.err # EmptyInput
       ELSE fn.out = ReferenceSlug(fn.s) /\ fn.err = nil

\* the example of the tests, whose slug has runs and a trimmed end
C15_Witness ==
    /\ fn.name = "Slugify"
    /\ fn.s = ComplexString
    /\ fn.out = ComplexSlug
    /\ fn.err = nil

-----------------------------------------------------------------------------
(* Properties of CreateDirIfNotExist                                       *)

\* the path was absent or a directory, and the filesystem lets the
\* directory be made
Creatable == mk.dir0 \in {"absent", "present"} /\ ~mk.refuses

\* the number of calls that have returned
RECURSIVE CallsReturned(_)
CallsReturned(p) ==
    IF p = 0 THEN 0 ELSE mk.procs[p].calls + CallsReturned(p - 1)

\* C16: on a path that can be made, any number of calls of
\* CreateDirIfNotExist, one after the other or interleaved, all return nil;
\* once a call has returned there is exactly one directory at the path,
\* made at most once, and a Mkdir that finds it there counts as success
C16_IdempotentAndRaceSafe ==
    (mk.procs # << >> /\ Creatable)
    => /\ mk.errs \subseteq {nil}
       /\ mk.made + (IF mk.dir0 = "present" THEN 1 ELSE 0) <= 1
       /\ CallsReturned(MaxCallers) > 0
          => /\ fsDir = "present"
             /\ mk.made + (IF mk.dir0 = "present" THEN 1 ELSE 0) = 1

\* two callers saw the path absent; one made the directory, the Mkdir of
\* the other found it there; both have returned, and called again
C16_Witness ==
    /\ mk.procs # << >> /\ Creatable
    /\ mk.existed > 0
    /\ \A p \in Callers : mk.procs[p].calls = MaxCalls
    /\ mk.errs = {nil}

-----------------------------------------------------------------------------
(* Properties of WriteJSON and ErrorJSON                                   *)

\* the text of a JSON string, read back from between its quotes; ok says
\* that s is well-formed there
RECURSIVE Unescape(_)
Unescape(s) ==
    IF s = "" THEN [ok |-> TRUE, str |-> ""]
    ELSE IF Char(s, 1) = "\"" THEN [ok |-> FALSE, str |-> ""]
    ELSE IF Char(s, 1) # "\\"
    THEN LET r == Unescape(SubSeq(s, 2, Len(s)))
         IN  [ok |-> r.ok, str |-> Char(s, 1) \o r.str]
    ELSE IF Len(s) >= 2 /\ Char(s, 2) \in {"\"", "\\"}
    THEN LET r == Unescape(SubSeq(s, 3, Len(s)))
         IN  [ok |-> r.ok, str |-> Char(s, 2) \o r.str]
    ELSE IF Len(s) >= 6 /\ SubSeq(s, 2, 6) \in {"u003c", "u003e", "u0026"}
    THEN LET r == Unescape(SubSeq(s, 7, Len(s)))
             c == IF SubSeq(s, 2, 6) = "u003c" THEN "<"
                  ELSE IF SubSeq(s, 2, 6) = "u003e" THEN ">" ELSE "&"
         IN  [ok |-> r.ok, str |-> c \o r.str]
    ELSE [ok |-> FALSE, str |-> ""]

DecodeJSONString(lit) ==
    IF Len(lit) >= 2 /\ Char(lit, 1) = "\"" /\ Char(lit, Len(lit)) = "\""
    THEN Unescape(SubSeq(lit, 2, Len(lit) - 1))
    ELSE [ok |-> FALSE, str |-> ""]

\* the body is the object {"error":true,"message":<text>} and no more
IsErrorEnvelope(body, text) ==
    LET head == "{\"error\":true,\"message\":"
    IN  /\ HasPrefix(body, head)
        /\ Len(body) > Len(head) + 1
        /\ Char(body, Len(body)) = "}"
        /\ LET d == DecodeJSONString(
                        SubSeq(body, Len(head) + 1, Len(body) - 1))
           IN  d.ok /\ d.str = text

\* C17: ErrorJSON writes the status 400 when it is given none and the
\* first one it is given otherwise, and the body it writes is the envelope
\* with error true, the text of the error as message and no data
C17_ErrorEnvelope ==
    (pc = "returned" /\ w.pc = "return" /\ w.via = "ErrorJSON")
    => /\ w.statuses
            = << IF w.statusArgs = << >> THEN 400 ELSE w.statusArgs[1] >>
       /\ w.err = nil => IsErrorEnvelope(w.body, w.errText)

\* ErrorJSON with the status 503 and an error whose text needs escaping
C17_Witness ==
    /\ pc = "returned" /\ w.pc = "return" /\ w.via = "ErrorJSON"
    /\ w.statusArgs = <<503>>
    /\ w.errText = "a \"b\" <c> & \\d"
    /\ w.err = nil
    /\ w.statuses = <<503>>

\* Marshal has no text for the value
Unmarshalable(v) ==
    \/ v.kind = "chan"
    \/ v.kind = "JSONResponse" /\ v.Data.kind = "chan"

\* the extra header of the call
ExtraOf(headers) == IF headers = << >> THEN NoHeader ELSE headers[1]

\* the writes of WriteJSON to the response, in the order of the claim
ExpectedLog(headers) ==
    (IF headers = << >> THEN << >> ELSE <<"headers">>)
        \o <<"Content-Type", "WriteHeader", "Write">>

IsPrefixOf(a, b) == Len(a) <= Len(b) /\ a = SubSeq(b, 1, Len(a))

\* C20: when the data cannot be marshalled WriteJSON returns the error and
\* has set no header and written no status and no body; otherwise it
\* copies the extra headers, then sets Content-Type to application/json,
\* over the one of the extra headers, then writes the status, once, then
\* the body
C20_WriteOrder ==
    w.pc # "none"
    => /\ Unmarshalable(w.data)
          => /\ w.header = w.header0
             /\ w.statuses = << >> /\ w.sent = << >>
             /\ w.body = "" /\ w.log = << >>
             /\ pc = "returned" => w.err = UnsupportedType
       /\ ~Unmarshalable(w.data)
          => /\ IsPrefixOf(w.log, ExpectedLog(w.headers))
             /\ pc = "returned" => w.log = ExpectedLog(w.headers)
             /\ w.statuses \in { << >>, <<w.status>> }
             /\ w.statuses # << >>
                => /\ "Content-Type" \in DOMAIN w.sent
                   /\ w.sent["Content-Type"] = <<"application/json">>
                   /\ \A k \in DOMAIN ExtraOf(w.headers) \ {"Content-Type"} :
                         k \in DOMAIN w.sent
                            /\ w.sent[k] = ExtraOf(w.headers)[k]
             /\ w.body # "" => w.statuses = <<w.status>>
             /\ (pc = "returned" /\ w.err = nil)
                => w.body = w.out /\ w.statuses = <<w.status>>

\* WriteJSON with an extra header that has a Content-Type of its own
C20_Witness ==
    /\ pc = "returned" /\ w.pc = "return" /\ w.via = "WriteJSON"
    /\ w.headers # << >>
    /\ DOMAIN w.headers[1] = {"Content-Type", "Foo"}
    /\ w.err = nil
    /\ w.sent["Content-Type"] = <<"application/json">>
    /\ w.sent["Foo"] = <<"BAR">>
    /\ w.statuses = <<w.status>>
    /\ w.body = w.out

-----------------------------------------------------------------------------
(* More properties of the upload ingestor                                  *)

\* C18: no invocation writes to a field of the Tools value it is called
\* on, so that concurrent invocations on one Tools value have no
\* conflicting access to it
C18_ToolsNeverWritten == [][t' = t]_vars

\* what the code does: the only field written is MaxFileSize, by
\* UploadFiles, from 0 to the default
C18_OnlyMaxFileSizeWritten ==
    [][\/ t' = t
       \/ /\ t.MaxFileSize = 0
          /\ t' = [t EXCEPT !.MaxFileSize = DefaultMaxFileSize]]_vars

\* C19: a part shorter than 512 bytes, down to an empty one, is classified
\* from the bytes it holds and not from a buffer filled up with zero
\* bytes, and being short is no failure: such a part is rejected only if
\* the type of its own bytes is not allowed, and never for the end of its
\* input
C19_ShortPartSniffedFromItsBytes ==
    (Returned1 /\ call.idx <= Len(call.order)
        /\ Len(Bytes(call.order[call.idx].data)) < sniffLen)
    => /\ call.err # "EOF"
       /\ call.err = TypeNotPermitted
          => ~AcceptRule(DetectContentType(Bytes(call.order[call.idx].data)),
                         t.AllowedFileTypes)

-----------------------------------------------------------------------------
(* Handles of UploadFiles *)

\* C21: every handle UploadFiles opens is closed by the time it returns:
\* after any sequence of parts, on the success path and on every error
\* path, neither a source part stream nor a destination file made by
\* os.Create is still open.
C21_NoHandleLeftOpen == Returned1 => obs.open = << >>

\* what the code does: the source streams are closed, and every destination
\* file that os.Create made is still open at the return
C21_CreatedFilesStayOpen ==
    Returned1 =>
        /\ \A i \in 1..Len(obs.open) : obs.open[i] # "inFile"
        /\ Len(obs.open) >= Len(obs.stored)

-----------------------------------------------------------------------------
(* The destination of ReadJSON *)

\* the first value of the body as the decoder sees it below the size limit
FirstValue ==
    ScanValue(MaxBytesReader(js.body, MaxBytesOf(t)).text, 1)

\* the destination after the members of an object have been stored in it one
\* by one: a field holds the string of the last member that names it and
\* has a string, and its old value if there is none
StoredMembers(data, members) ==
    [f \in DOMAIN data |->
        LET named == { i \in 1..Len(members) :
                          /\ f \in FieldsNamed(data, members[i].key)
                          /\ members[i].val.type = "string" }
        IN  IF named = {} THEN data[f]
            ELSE members[CHOOSE i \in named : \A j \in named : j <= i].val.str]

\* C22 as stated: whenever ReadJSON returns an error, the destination is
\* left exactly as it was before the call.
C22_DestinationUntouchedOnError ==
    ReturnedJSON /\ js.res.err # nil => js.res.data = js.data

\* C22, amended: when ReadJSON returns an error, the destination is as it
\* was if the first value of the body could not be read in full (or there
\* was nothing to store it in); once the first value has been read, it has
\* been unmarshalled into the destination and what was stored stays: the
\* members of an object that could be stored are stored, whether the error
\* is a type mismatch part-way, an unknown key or trailing content.
C22_DestinationKeepsFirstDecode ==
    ReturnedJSON /\ js.res.err # nil =>
        IF FirstValue.st = "ok" /\ FirstValue.val.type = "object" /\ js.dataOK
        THEN js.res.data = StoredMembers(js.data, FirstValue.val.members)
        ELSE js.res.data = js.data

\* a type mismatch after a member that was stored
C22_Witness ==
    /\ ReturnedJSON
    /\ js.body.text = "{\"foo\": \"bar\", \"foo\": 1}"
    /\ js.dataOK
    /\ js.data = [foo |-> "old"]
    /\ js.res.case = "unmarshalTypeError"
    /\ js.res.data = [foo |-> "bar"]

-----------------------------------------------------------------------------
(* The files the records name *)

\* UploadFiles returned without error: every part was stored, and record i
\* is the record of the i-th part visited
ReturnedNil == Returned1 /\ call.err = nil

\* C23: after UploadFiles returns with a nil error, every returned record
\* names its own distinct file in the destination directory, and that file
\* holds exactly the bytes of the record's part, FileSize of them, for
\* either rename policy and any parts, two parts of the same original file
\* name included.
C23_EachRecordOwnsItsFile ==
    ReturnedNil =>
        LET recs == call.uploadedFiles
        IN  /\ \A i \in 1..Len(recs) :
                  /\ recs[i].NewFileName \in DOMAIN fsFiles
                  /\ fsFiles[recs[i].NewFileName] = Bytes(call.order[i].data)
                  /\ Len(fsFiles[recs[i].NewFileName]) = recs[i].FileSize
            /\ \A i, j \in 1..Len(recs) :
                  i # j => recs[i].NewFileName # recs[j].NewFileName

\* what the code does: a file holds the bytes of the last part stored under
\* its name, and every record keeps the size of its own part
C23_LastPartOfANameWins ==
    ReturnedNil =>
        LET recs == call.uploadedFiles
        IN  \A i \in 1..Len(recs) :
               LET same == { j \in 1..Len(recs) :
                               recs[j].NewFileName = recs[i].NewFileName }
                   last == CHOOSE j \in same : \A k \in same : k <= j
               IN  /\ recs[i].NewFileName \in DOMAIN fsFiles
                   /\ fsFiles[recs[i].NewFileName]
                        = Bytes(call.order[last].data)
                   /\ recs[i].FileSize = Len(Bytes(call.order[i].data))

\* two parts of one original file name, stored under it: the first part's
\* record is returned, and its bytes are gone
C23_FirstPartOverwritten ==
    /\ ReturnedNil
    /\ ~call.renameFile
    /\ Len(call.uploadedFiles) = 2
    /\ call.order[1].data = "png" /\ call.order[2].data = "text"
    /\ call.uploadedFiles[1].NewFileName = "img.png"
    /\ call.uploadedFiles[2].NewFileName = "img.png"
    /\ call.uploadedFiles[1].FileSize = Len(PNGData)
    /\ fsFiles["img.png"] = TextData

-----------------------------------------------------------------------------
(* The response PushJSONToRemote returns *)

PushReturned == pc = "returned" /\ fn.name = "PushJSONToRemote"

\* C24: when PushJSONToRemote returns a response and a nil error, the body
\* of the response has not been closed by PushJSONToRemote and the caller
\* can still read it; on a marshal, request-construction or transport error
\* it returns (nil, 0, err), and it makes at most one request attempt.
C24_RawResponseHandedBack ==
    PushReturned =>
        /\ fn.attempts <= 1
        /\ fn.ret.err # nil =>
              fn.ret.response = NoResponse /\ fn.ret.StatusCode = 0
        /\ fn.ret.err = nil /\ fn.ret.response # NoResponse =>
              /\ ~fn.ret.response.Body.closed
              /\ fn.read # NotRead =>
                    fn.read = [data |-> fn.response.Body.content,
                               err |-> nil]

\* what the code does: the response of a nil-error return carries the
\* status code and a body that was closed already; the error returns are
\* as the claim says
C24_BodyClosedBeforeReturn ==
    PushReturned =>
        /\ fn.attempts <= 1
        /\ fn.ret.err # nil =>
              fn.ret.response = NoResponse /\ fn.ret.StatusCode = 0
        /\ fn.ret.err = nil =>
              /\ fn.ret.response = CloseBody(fn.response)
              /\ fn.ret.StatusCode = fn.response.StatusCode
              /\ fn.attempts = 1

\* the caller of a successful push to a real server cannot read the answer
C24_CallerCannotRead ==
    /\ PushReturned
    /\ fn.ret.err = nil /\ fn.ret.StatusCode = 200
    /\ fn.response.Body.content = "ok"
    /\ fn.read = [data |-> "", err |-> "http: read on closed response body"]

====
